---- MODULE Spec2Model ----
(***************************************************************************)
(* A model of aoctool's day and year initialisers (src/src/lib.rs).        *)
(*                                                                         *)
(* The file system is modelled by what the code reads and writes: the      *)
(* workspace manifest (Cargo.toml), the day directories and the files      *)
(* rendered into them, the template cache, and, for initialize_year, the   *)
(* directory tree, the bootstrapped projects and the .gitignore files.     *)
(* The input storage belongs to the input-fetch collaborator: the code     *)
(* touches it only by calling get_input, and the calls are recorded.       *)
(*                                                                         *)
(* Every handler is one action.  Each call aborts at its first failing     *)
(* step, so the environment of one call is described by at most one        *)
(* injected fault (the first one the call meets); failures the file        *)
(* system forces (a missing parent directory, an existing file opened      *)
(* with create_new) are computed from the state.  The faults injected are  *)
(* the failures of the collaborators (network, templates, input fetch,     *)
(* cargo) and of the writes that change a directory or the manifest.       *)
(***************************************************************************)
EXTENDS Integers, Sequences, FiniteSets, TLC

VARIABLES manifest, dayDirs, dayFiles, cache, last,
          paths, dirs, projects, gitignore, lastYear, calls

dayVars == <<manifest, dayDirs, dayFiles, cache, last>>
yearVars == <<paths, dirs, projects, gitignore, lastYear, calls>>
vars == <<manifest, dayDirs, dayFiles, cache, last,
          paths, dirs, projects, gitignore, lastYear, calls>>

(***************************************************************************)
(* Bounds                                                                  *)
(***************************************************************************)
\* how many of the candidate day numbers the calls draw from
NumDays == 1
\* how many of the candidate paths the callers of initialize_year draw from
NumPaths == 2
\* how many initialize_year calls one behaviour makes
MaxCalls == 2

DayPool == <<5, 12, 25, 1>>
Days == {DayPool[i] : i \in 1..(IF NumDays < Len(DayPool) THEN NumDays ELSE Len(DayPool))}
Years == {2022, 2023}
\* the years whose configuration entry the model follows
ConfigYears == {2023}

(***************************************************************************)
(* Constants of the program                                                *)
(***************************************************************************)
\* the template names, as paths relative to the template directory
TEMPLATE_FILES == << <<"Cargo.toml">>, <<"src", "lib.rs">>, <<"src", "main.rs">> >>

Templates == 1..Len(TEMPLATE_FILES)

Ok == "Ok"

\* the injected fault of one call: the first environment failure it meets
NoFault == [kind |-> "none", at |-> 0]
Faults ==
  {NoFault}
  \cup {[kind |-> k, at |-> 0] :
          k \in {"mkdir_day", "write_manifest", "get_input"}}
  \cup {[kind |-> k, at |-> t] :
          k \in {"client", "send", "status", "copy", "template"},
          t \in Templates}

(***************************************************************************)
(* Manifest Editor                                                         *)
(***************************************************************************)
Str(s) == [is_str |-> TRUE, text |-> s]
NonStr(s) == [is_str |-> FALSE, text |-> s]

NoManifest ==
  [exists |-> FALSE, parses |-> FALSE, workspace |-> "none", members |-> "none", items |-> <<>>]
Garbage ==
  [exists |-> TRUE, parses |-> FALSE, workspace |-> "none", members |-> "none", items |-> <<>>]
Doc(ws, mk, items) ==
  [exists |-> TRUE, parses |-> TRUE, workspace |-> ws, members |-> mk, items |-> items]

\* day_name without the zero padding
day_name_unpadded(day) == "day" \o ToString(day)

\* format!("day{:02}", day): at least two digits, zero-padded
day_name(day) == "day" \o (IF day < 10 THEN "0" ELSE "") \o ToString(day)

get_cargo_toml(m, fault) ==
  IF ~m.exists THEN "NoCargoToml"
  ELSE IF ~m.parses THEN "ParseToml"
  ELSE Ok

\* IsMember with all() in the place of any()
IsMember_all(items, crate_name) ==
  \A i \in 1..Len(items) : items[i].is_str /\ items[i].text = crate_name

\* members.iter().any(|item| item.as_str().map(|s| s == crate_name).unwrap_or_default())
IsMember(items, crate_name) ==
  \E i \in 1..Len(items) : items[i].is_str /\ items[i].text = crate_name

\* Array::push refuses a value whose type differs from the array's first value
PushFails(items) == Len(items) > 0 /\ ~items[1].is_str

\* the result of add_crate_to_workspace and the manifest file it leaves on disk
add_crate_to_workspace(m, crate_name, fault) ==
  IF m.workspace = "other" THEN [result |-> "MalformedToml", manifest |-> m]
  ELSE IF m.workspace = "table" /\ m.members = "other"
    THEN [result |-> "MalformedToml", manifest |-> m]
  ELSE LET items == IF m.workspace = "table" /\ m.members = "array" THEN m.items ELSE <<>>
       IN IF IsMember(items, crate_name)
            THEN [result |-> "CrateAlreadyExists", manifest |-> m]
          ELSE IF PushFails(items) THEN [result |-> "MalformedToml", manifest |-> m]
          ELSE IF fault.kind = "write_manifest" THEN [result |-> "Io", manifest |-> m]
          ELSE [result |-> Ok,
                manifest |-> Doc("table", "array", Append(items, Str(crate_name)))]

(***************************************************************************)
(* Template Store                                                          *)
(***************************************************************************)
\* the directory of the cache a template file lives in: "" is the cache root
Parent(t) == IF Len(TEMPLATE_FILES[t]) > 1 THEN TEMPLATE_FILES[t][1] ELSE ""

ParentExists(c, t) == IF Parent(t) = "" THEN c.dir ELSE c.src

\* template_path.exists()
CacheHas(c, t) == ParentExists(c, t) /\ c.files[t] # "absent"

\* Fetch with the file created before the request is sent
Fetch_open_first(c, t, fault) ==
  IF fault.at = t /\ fault.kind = "client" THEN [result |-> "ClientBuilder", cache |-> c]
  ELSE IF ~ParentExists(c, t) THEN [result |-> "Io", cache |-> c]
  ELSE IF fault.at = t /\ fault.kind = "send"
    THEN [result |-> "RequestingInput", cache |-> [c EXCEPT !.files[t] = "partial"]]
  ELSE IF fault.at = t /\ fault.kind = "status"
    THEN [result |-> "ResponseStatus", cache |-> [c EXCEPT !.files[t] = "partial"]]
  ELSE IF fault.at = t /\ fault.kind = "copy"
    THEN [result |-> "Downloading", cache |-> [c EXCEPT !.files[t] = "partial"]]
  ELSE [result |-> Ok, cache |-> [c EXCEPT !.files[t] = "complete"]]

\* one retrieval: client, request, status, create_new, copy
Fetch(c, t, fault) ==
  IF fault.at = t /\ fault.kind = "client" THEN [result |-> "ClientBuilder", cache |-> c]
  ELSE IF fault.at = t /\ fault.kind = "send" THEN [result |-> "RequestingInput", cache |-> c]
  ELSE IF fault.at = t /\ fault.kind = "status" THEN [result |-> "ResponseStatus", cache |-> c]
  ELSE IF ~ParentExists(c, t) THEN [result |-> "Io", cache |-> c]
  ELSE IF fault.at = t /\ fault.kind = "copy"
    THEN [result |-> "Downloading", cache |-> [c EXCEPT !.files[t] = "partial"]]
  ELSE [result |-> Ok, cache |-> [c EXCEPT !.files[t] = "complete"]]

RECURSIVE FetchFrom(_, _, _, _)
\* the loop of ensure_template_dir from template t on; n counts the retrievals begun
FetchFrom(t, c, fault, n) ==
  IF t > Len(TEMPLATE_FILES) THEN [result |-> Ok, cache |-> c, retrievals |-> n]
  ELSE IF CacheHas(c, t) THEN FetchFrom(t + 1, c, fault, n)
  ELSE LET f == Fetch(c, t, fault)
       IN IF f.result # Ok
            THEN [result |-> f.result, cache |-> f.cache, retrievals |-> n + 1]
          ELSE FetchFrom(t + 1, f.cache, fault, n + 1)

ensure_template_dir(c, fault) == FetchFrom(1, [c EXCEPT !.dir = TRUE], fault, 0)

(***************************************************************************)
(* Template Renderer                                                       *)
(***************************************************************************)
\* the file render writes for template t: the template's text with the context put in
Rendered(c, t, day, name) ==
  [dir |-> name, template |-> t, body |-> c.files[t], day |-> day, package_name |-> name]

FileExists(files, name, t) == \E f \in files : f.dir = name /\ f.template = t

RECURSIVE RenderFrom(_, _, _, _, _, _)
\* the loop of render_templates_into from template t on
RenderFrom(t, c, files, day, name, fault) ==
  IF t > Len(TEMPLATE_FILES) THEN [result |-> Ok, files |-> files]
  ELSE IF fault.at = t /\ fault.kind = "template" THEN [result |-> "Template", files |-> files]
  ELSE IF FileExists(files, name, t) THEN [result |-> "Io", files |-> files]
  ELSE RenderFrom(t + 1, c, files \cup {Rendered(c, t, day, name)}, day, name, fault)

\* ensure_template_dir, then the rendering loop
render_templates_into(c, files, day, name, fault) ==
  LET e == ensure_template_dir(c, fault)
  IN IF e.result # Ok
       THEN [result |-> e.result, cache |-> e.cache, files |-> files,
             retrievals |-> e.retrievals, log |-> <<"templates">>]
     ELSE LET r == RenderFrom(1, e.cache, files, day, name, fault)
          IN [result |-> r.result, cache |-> e.cache, files |-> r.files,
              retrievals |-> e.retrievals, log |-> <<"templates", "render">>]

(***************************************************************************)
(* Initializer (day)                                                       *)
(***************************************************************************)
\* aoclib::website::get_input, the input-fetch collaborator: it succeeds or fails
get_input(year, day, fault) == IF fault.kind = "get_input" THEN "GetInput" ELSE Ok

Call(r, log, m, dd, df, c, n, fetched) ==
  [result |-> r, log |-> log, manifest |-> m, dayDirs |-> dd, dayFiles |-> df,
   cache |-> c, retrievals |-> n, fetched |-> fetched]

\* the second half of initialize: the input download
FetchStep(log, m, dd, df, c, n, year, day, skip_get_input, fault) ==
  IF skip_get_input THEN Call(Ok, log, m, dd, df, c, n, <<>>)
  ELSE Call(get_input(year, day, fault), Append(log, "fetch"), m, dd, df, c, n,
            << <<year, day>> >>)

\* CreateCrate with the result of render_templates_into dropped
CreateCrate_drops_render_error(m, dd, df, c, year, day, skip_get_input, fault) ==
  LET name == day_name(day)
  IN IF fault.kind = "mkdir_day"
       THEN Call("Io", <<"resolve", "create_dir">>, m, dd, df, c, 0, <<>>)
     ELSE LET dd2 == dd \cup {name}
              a == add_crate_to_workspace(m, name, fault)
          IN IF a.result # Ok
               THEN Call(a.result, <<"resolve", "create_dir", "register">>,
                         a.manifest, dd2, df, c, 0, <<>>)
             ELSE LET r == render_templates_into(c, df, day, name, fault)
                      log == <<"resolve", "create_dir", "register">> \o r.log
                  IN FetchStep(log, a.manifest, dd2, r.files, r.cache,
                               r.retrievals, year, day, skip_get_input, fault)

\* the first half of initialize: the new sub-crate
CreateCrate(m, dd, df, c, year, day, skip_get_input, fault) ==
  LET name == day_name(day)
  IN IF fault.kind = "mkdir_day"
       THEN Call("Io", <<"resolve", "create_dir">>, m, dd, df, c, 0, <<>>)
     ELSE LET dd2 == dd \cup {name}
              a == add_crate_to_workspace(m, name, fault)
          IN IF a.result # Ok
               THEN Call(a.result, <<"resolve", "create_dir", "register">>,
                         a.manifest, dd2, df, c, 0, <<>>)
             ELSE LET r == render_templates_into(c, df, day, name, fault)
                      log == <<"resolve", "create_dir", "register">> \o r.log
                  IN IF r.result # Ok
                       THEN Call(r.result, log, a.manifest, dd2, r.files, r.cache,
                                 r.retrievals, <<>>)
                     ELSE FetchStep(log, a.manifest, dd2, r.files, r.cache,
                                    r.retrievals, year, day, skip_get_input, fault)

\* initialize with skip_create_crate not looked at
initialize_ignores_skip(m, dd, df, c, year, day, skip_create_crate, skip_get_input, fault) ==
  LET g == get_cargo_toml(m, fault)
  IN IF g # Ok THEN Call(g, <<"resolve">>, m, dd, df, c, 0, <<>>)
     ELSE CreateCrate(m, dd, df, c, year, day, skip_get_input, fault)

initialize(m, dd, df, c, year, day, skip_create_crate, skip_get_input, fault) ==
  LET g == get_cargo_toml(m, fault)
  IN IF g # Ok THEN Call(g, <<"resolve">>, m, dd, df, c, 0, <<>>)
     ELSE IF skip_create_crate
       THEN FetchStep(<<"resolve">>, m, dd, df, c, 0, year, day, skip_get_input, fault)
     ELSE CreateCrate(m, dd, df, c, year, day, skip_get_input, fault)

\* the fault a call met: NoFault when the call ends as it would have without it
Met(r, clean, fault) == IF r = clean THEN NoFault ELSE fault

Initialize ==
  \E year \in Years, day \in Days, skip_create_crate \in BOOLEAN,
     skip_get_input \in BOOLEAN :
    \E clean \in {initialize(manifest, dayDirs, dayFiles, cache,
                              year, day, skip_create_crate, skip_get_input, NoFault)} :
      \E fault \in Faults :
        \E r \in {initialize(manifest, dayDirs, dayFiles, cache,
                              year, day, skip_create_crate, skip_get_input, fault)} :
          /\ manifest' = r.manifest
          /\ dayDirs' = r.dayDirs
          /\ dayFiles' = r.dayFiles
          /\ cache' = r.cache
          /\ last' = [op |-> "initialize", year |-> year, day |-> day,
                      skip_create_crate |-> skip_create_crate,
                      skip_get_input |-> skip_get_input,
                      result |-> r.result, log |-> r.log,
                      retrievals |-> r.retrievals, fetched |-> r.fetched,
                      fault |-> Met(r, clean, fault)]
          /\ UNCHANGED yearVars

(***************************************************************************)
(* Initializer (year)                                                      *)
(***************************************************************************)
\* std::env::current_dir()
Cwd == <<"w">>

\* the paths a caller may supply, absolute, as sequences of components
PathPool ==
  << <<"w", "w">>, <<"w", "..", "w">>, <<"w", "..", "x">>, <<"..">>, <<"x", "y">> >>
SuppliedPaths ==
  {PathPool[i] : i \in 1..(IF NumPaths < Len(PathPool) THEN NumPaths ELSE Len(PathPool))}

\* Option<PathBuf>: the empty set is None, {p} is Some(p)
None == {}
Some(p) == {p}
Unwrap(o) == CHOOSE p \in o : TRUE
PathOptions == {None} \cup {Some(p) : p \in SuppliedPaths}

NoPaths == [input_files |-> None, implementation |-> None, day_template |-> None]

RECURSIVE canonicalize(_)
\* Path::canonicalize: the absolute path with every ".." resolved
canonicalize(p) ==
  IF p = <<>> THEN <<>>
  ELSE LET front == canonicalize(SubSeq(p, 1, Len(p) - 1))
           c == p[Len(p)]
       IN IF c = ".." THEN (IF front = <<>> THEN <<>> ELSE SubSeq(front, 1, Len(front) - 1))
          ELSE Append(front, c)

\* the directories create_dir_all(p) makes sure of: p and everything it passes through
Ancestors(p) == {canonicalize(SubSeq(p, 1, k)) : k \in 0..Len(p)}

\* Path::exists
Exists(d, p) == Ancestors(p) \subseteq d

\* config.implementation(year), default "$(pwd)"
implementation(ps) == IF ps.implementation = None THEN Cwd ELSE Unwrap(ps.implementation)
\* config.input_files(year), default "$(pwd)/inputs"
input_files(ps) == IF ps.input_files = None THEN Append(Cwd, "inputs") ELSE Unwrap(ps.input_files)

\* ensure_path with the configured destination not looked at
ensure_path_overwrites(maybe_path, path_destination, d, failing) ==
  IF maybe_path # None
    THEN IF failing THEN [result |-> "Io", dest |-> path_destination, dirs |-> d]
         ELSE [result |-> Ok, dest |-> Some(canonicalize(Unwrap(maybe_path))),
               dirs |-> d \cup Ancestors(Unwrap(maybe_path))]
  ELSE [result |-> Ok, dest |-> path_destination, dirs |-> d]

\* the closure ensure_path: [result, dest, dirs]
ensure_path(maybe_path, path_destination, d, failing) ==
  IF maybe_path # None /\ path_destination = None
    THEN IF failing THEN [result |-> "Io", dest |-> path_destination, dirs |-> d]
         ELSE [result |-> Ok, dest |-> Some(canonicalize(Unwrap(maybe_path))),
               dirs |-> IF Exists(d, Unwrap(maybe_path)) THEN d
                        ELSE d \cup Ancestors(Unwrap(maybe_path))]
  ELSE [result |-> Ok, dest |-> path_destination, dirs |-> d]

\* the three ensure_path calls, the first failure ending them
EnsurePaths(ps, d, opts, fault) ==
  LET a == ensure_path(opts.input_files, ps.input_files, d, fault.kind = "ensure_input")
      psA == [ps EXCEPT !.input_files = a.dest]
      b == ensure_path(opts.implementation, ps.implementation, a.dirs,
                       fault.kind = "ensure_implementation")
      psB == [psA EXCEPT !.implementation = b.dest]
      c == ensure_path(opts.day_templates, ps.day_template, b.dirs,
                       fault.kind = "ensure_day_template")
      psC == [psB EXCEPT !.day_template = c.dest]
  IN IF a.result # Ok THEN [result |-> a.result, paths |-> psA, dirs |-> a.dirs]
     ELSE IF b.result # Ok THEN [result |-> b.result, paths |-> psB, dirs |-> b.dirs]
     ELSE [result |-> c.result, paths |-> psC, dirs |-> c.dirs]

RECURSIVE CommonLen(_, _)
CommonLen(a, b) ==
  IF a # <<>> /\ b # <<>> /\ a[1] = b[1] THEN 1 + CommonLen(Tail(a), Tail(b)) ELSE 0

\* pathdiff::diff_paths(path, base) for two absolute paths without dots
diff_paths(path, base) ==
  LET k == CommonLen(path, base)
  IN [i \in 1..(Len(base) - k) |-> ".."] \o SubSeq(path, k + 1, Len(path))

\* Path::starts_with(".."), component-wise
starts_with_parent(rel) == Len(rel) > 0 /\ rel[1] = ".."

\* what `cargo new --lib` puts into the .gitignore it creates
CargoIgnore == << <<"/target">> >>

HasIgnore(g, p) == p \in DOMAIN g
AppendLine(g, p, line) ==
  IF HasIgnore(g, p) THEN [g EXCEPT ![p] = Append(@, line)] ELSE g @@ (p :> <<line>>)

YCall(r, ps, d, pr, g, boot, app) ==
  [result |-> r, paths |-> ps, dirs |-> d, projects |-> pr, gitignore |-> g,
   bootstrapped |-> boot, appended |-> app]

\* the last block of initialize_year: the .gitignore line
IgnoreStep(ps, d, pr, g, boot, fault) ==
  LET impl_path == implementation(ps)
      input_files_relative == diff_paths(input_files(ps), impl_path)
  IN IF starts_with_parent(input_files_relative) THEN YCall(Ok, ps, d, pr, g, boot, <<>>)
     ELSE IF impl_path \notin d \/ fault.kind = "open_gitignore"
       THEN YCall("Io", ps, d, pr, g, boot, <<>>)
     ELSE YCall(Ok, ps, d, pr, AppendLine(g, impl_path, input_files_relative), boot,
                <<input_files_relative>>)

\* the middle block of initialize_year: cargo new, then the removal of src
BootstrapStep(ps, d, pr, g, year, fault) ==
  LET impl_path == implementation(ps)
  IN IF impl_path \in d THEN IgnoreStep(ps, d, pr, g, FALSE, fault)
     ELSE IF fault.kind = "spawn" THEN YCall("Io", ps, d, pr, g, FALSE, <<>>)
     ELSE IF fault.kind = "cargo_exit" THEN IgnoreStep(ps, d, pr, g, TRUE, fault)
     ELSE LET made == d \cup Ancestors(impl_path) \cup {Append(impl_path, "src")}
              pr2 == pr \cup {[path |-> impl_path, name |-> "aoc" \o ToString(year)]}
              g2 == IF HasIgnore(g, impl_path) THEN g ELSE g @@ (impl_path :> CargoIgnore)
          IN IF fault.kind = "remove_src"
               THEN YCall("Io", ps, made, pr2, g2, TRUE, <<>>)
             ELSE IgnoreStep(ps, made \ {Append(impl_path, "src")}, pr2, g2, TRUE, fault)

initialize_year(ps, d, pr, g, year, opts, fault) ==
  LET e == EnsurePaths(ps, d, opts, fault)
  IN IF e.result # Ok THEN YCall(e.result, e.paths, e.dirs, pr, g, FALSE, <<>>)
     ELSE BootstrapStep(e.paths, e.dirs, pr, g, year, fault)

YearFaults ==
  {[kind |-> k, at |-> 0] :
     k \in {"none", "ensure_input", "ensure_implementation", "ensure_day_template",
            "spawn", "cargo_exit", "remove_src", "open_gitignore"}}

\* the path option the call can use for a role: None where the role is configured
Usable(maybe_path, path_destination) == IF path_destination = None THEN maybe_path ELSE None

\* the caller supplied a path for a role that is already configured
Refused(opts, ps) ==
  \/ opts.input_files # None /\ ps.input_files # None
  \/ opts.implementation # None /\ ps.implementation # None
  \/ opts.day_templates # None /\ ps.day_template # None

InitializeYear ==
  /\ calls < MaxCalls
  /\ \E year \in ConfigYears, input \in PathOptions, impl \in PathOptions,
        tmpl \in PathOptions :
       LET opts == [input_files |-> input, implementation |-> impl, day_templates |-> tmpl]
           ps == paths[year]
       IN \E clean \in {initialize_year(ps, dirs, projects, gitignore, year, opts, NoFault)} :
            \E fault \in YearFaults :
              \E r \in {initialize_year(ps, dirs, projects, gitignore, year, opts, fault)} :
                /\ paths' = [paths EXCEPT ![year] = r.paths]
                /\ dirs' = r.dirs
                /\ projects' = r.projects
                /\ gitignore' = r.gitignore
                /\ lastYear' =
                     [op |-> "initialize_year", year |-> year, result |-> r.result,
                      input_files |-> Usable(input, ps.input_files),
                      implementation |-> Usable(impl, ps.implementation),
                      day_templates |-> Usable(tmpl, ps.day_template),
                      refused |-> Refused(opts, ps),
                      impl_missing |-> implementation(r.paths) \notin dirs,
                      bootstrapped |-> r.bootstrapped, appended |-> r.appended,
                      fault |-> Met(r, clean, fault)]
                /\ calls' = calls + 1
  /\ UNCHANGED dayVars

(***************************************************************************)
(* Initial states                                                          *)
(***************************************************************************)
\* the manifests a call may find on disk
InitManifests ==
  {NoManifest, Garbage, Doc("none", "none", <<>>), Doc("other", "none", <<>>),
   Doc("table", "other", <<>>)}
  \cup {Doc("table", "array", items) :
          items \in {<<>>, <<Str("core")>>, <<NonStr(day_name(DayPool[1]))>>,
                     <<Str(day_name(DayPool[1]))>>}}

\* the template caches a call may find: only whole files, only under existing directories
InitCaches ==
  {c \in [dir : BOOLEAN, src : BOOLEAN,
          files : {[t \in Templates |-> "absent"], [t \in Templates |-> "complete"]}] :
     /\ c.src => c.dir
     /\ \A t \in Templates : ~ParentExists(c, t) => c.files[t] = "absent"}

NoCall ==
  [op |-> "none", year |-> 0, day |-> 0, skip_create_crate |-> FALSE,
   skip_get_input |-> FALSE, result |-> Ok, log |-> <<>>, retrievals |-> 0,
   fetched |-> <<>>, fault |-> NoFault]

NoYearCall ==
  [op |-> "none", year |-> 0, result |-> Ok, input_files |-> None,
   implementation |-> None, day_templates |-> None, refused |-> FALSE,
   impl_missing |-> FALSE,
   bootstrapped |-> FALSE, appended |-> <<>>, fault |-> NoFault]

DayInit ==
  /\ manifest \in InitManifests
  /\ dayDirs = {}
  /\ dayFiles = {}
  /\ cache \in InitCaches
  /\ last = NoCall

\* a configuration read back from disk may name an implementation root that is gone
YearInit ==
  /\ paths \in [ConfigYears -> {NoPaths, [NoPaths EXCEPT !.implementation = Some(<<"w", "w">>)]}]
  /\ dirs \in {{<<>>, Cwd}, {<<>>, Cwd, <<"w", "w">>}}
  /\ projects = {}
  /\ gitignore = <<>>
  /\ lastYear = NoYearCall
  /\ calls = 0

Init ==
  /\ DayInit
  /\ paths = [y \in ConfigYears |-> NoPaths]
  /\ dirs = {<<>>, Cwd}
  /\ projects = {}
  /\ gitignore = <<>>
  /\ lastYear = NoYearCall
  /\ calls = 0

Next == Initialize

Spec == Init /\ [][Next]_vars

InitYear ==
  /\ YearInit
  /\ manifest = NoManifest
  /\ dayDirs = {}
  /\ dayFiles = {}
  /\ cache = [dir |-> FALSE, src |-> FALSE, files |-> [t \in Templates |-> "absent"]]
  /\ last = NoCall

NextYear == InitializeYear

SpecYear == InitYear /\ [][NextYear]_vars

(***************************************************************************)
(* Properties                                                              *)
(***************************************************************************)
Range(q) == {q[i] : i \in 1..Len(q)}
IsPrefix(a, b) == Len(a) <= Len(b) /\ SubSeq(b, 1, Len(a)) = a

\* name is a string entry of workspace.members of the manifest on disk
HasStringMember(m, name) ==
  /\ m.exists /\ m.parses /\ m.workspace = "table" /\ m.members = "array"
  /\ \E i \in 1..Len(m.items) : m.items[i] = [is_str |-> TRUE, text |-> name]

\* the members list of a manifest that has one, or has none yet
MembersOf(m) == IF m.workspace = "table" /\ m.members = "array" THEN m.items ELSE <<>>

Digit == <<"0", "1", "2", "3", "4", "5", "6", "7", "8", "9">>
\* dayNN, NN the two decimal digits of a day below 100
DayNN(day) == "day" \o Digit[(day \div 10) + 1] \o Digit[(day % 10) + 1]

\* the template cache holds nothing: no file and no sub-directory
CacheEmpty(c) == ~c.src /\ \A t \in Templates : c.files[t] = "absent"

\* the step is a call of initialize that reached add_crate_to_workspace
Registering == last'.op = "initialize" /\ "register" \in Range(last'.log)

\* C1: registering a sub-project name that is already a string entry of
\* workspace.members fails with CrateAlreadyExists and leaves the manifest file as
\* it was; a second initialize for the day of a successful first one, meeting no
\* environment failure, fails this way.
C1_DuplicateRejected ==
  [][/\ (Registering /\ HasStringMember(manifest, DayNN(last'.day)))
          => (last'.result = "CrateAlreadyExists" /\ manifest' = manifest)
     /\ (/\ last.op = "initialize" /\ last.result = Ok /\ ~last.skip_create_crate
         /\ last'.op = "initialize" /\ ~last'.skip_create_crate
         /\ last'.day = last.day /\ last'.year = last.year /\ last'.fault = NoFault)
          => (last'.result = "CrateAlreadyExists" /\ manifest' = manifest)]_vars

\* C1 witness: a day registered by one call was refused by a later one
C1_Witness ==
  /\ last.op = "initialize" /\ last.result = "CrateAlreadyExists"
  /\ manifest.items = <<Str("core"), Str(DayNN(last.day))>>

\* the step is a call of initialize that creates the crate, starts from an empty
\* template cache and gets a non-success status from the network
StatusFailure ==
  /\ last'.op = "initialize" /\ ~last'.skip_create_crate
  /\ CacheEmpty(cache) /\ last'.result = "ResponseStatus"

\* C2 as claimed: with an empty template cache and a non-success status, initialize
\* returns the error with the manifest unchanged and the day directory not created.
C2_Original ==
  [][StatusFailure => (manifest' = manifest /\ dayDirs' = dayDirs)]_vars

\* C2 as amended: with an empty template cache and a non-success status, initialize
\* returns the error after the day directory was created and the day appended to
\* the members list, both left in place; the cache holds the templates retrieved
\* before the failing one and no file for the failing one, no template is rendered
\* and the input is not fetched.
C2_AbortsAfterRegistration ==
  [][StatusFailure =>
       /\ DayNN(last'.day) \in dayDirs'
       /\ manifest' = Doc("table", "array",
                          Append(MembersOf(manifest), Str(DayNN(last'.day))))
       /\ \A t \in Templates : CacheHas(cache', t) <=> t < last'.retrievals
       /\ \A t \in Templates : t >= last'.retrievals => cache'.files[t] = "absent"
       /\ dayFiles' = dayFiles
       /\ last'.fetched = <<>>]_vars

\* C2 witness: a call that met the status failure on an empty cache
C2_Witness ==
  /\ last.op = "initialize" /\ last.result = "ResponseStatus" /\ CacheEmpty(cache)
  /\ last.retrievals = 1
  /\ DayNN(last.day) \in dayDirs /\ HasStringMember(manifest, DayNN(last.day))

\* the step is a successful full initialize from a manifest without the day and a
\* cache holding every template
FullSuccess ==
  /\ last'.op = "initialize" /\ ~last'.skip_create_crate /\ ~last'.skip_get_input
  /\ last'.result = Ok
  /\ ~HasStringMember(manifest, DayNN(last'.day))
  /\ \A t \in Templates : CacheHas(cache, t)

\* C3: after a successful initialize(year, day, false, false) from a members list M
\* without dayNN and with all templates cached, the members list is M followed by
\* dayNN, the directory dayNN holds one rendered file per template, and the input
\* was fetched exactly once, with (year, day).
C3_FullInitialize ==
  [][FullSuccess =>
       LET name == DayNN(last'.day)
       IN /\ manifest' = Doc("table", "array", Append(MembersOf(manifest), Str(name)))
          /\ (MembersOf(manifest) = <<>> /\ last'.day = 5
                => manifest'.items = <<Str("day05")>>)
          /\ name \in dayDirs'
          /\ \A t \in Templates :
               {f \in dayFiles' : f.dir = name /\ f.template = t}
                 = {[dir |-> name, template |-> t, body |-> cache.files[t],
                     day |-> last'.day, package_name |-> name]}
          /\ last'.fetched = << <<last'.year, last'.day>> >>]_vars

\* C3 witness: day 5 of 2023 initialised from an empty members list
C3_Witness ==
  /\ last.op = "initialize" /\ last.result = Ok
  /\ ~last.skip_create_crate /\ ~last.skip_get_input
  /\ last.year = 2023 /\ last.day = 5 /\ last.fetched = << <<2023, 5>> >>
  /\ manifest.items = <<Str("day05")>>
  /\ Cardinality({f \in dayFiles : f.dir = "day05"}) = Len(TEMPLATE_FILES)

\* C4: initialize with both skip flags set changes no file or directory, makes no
\* retrieval and no input-fetch call, and succeeds exactly when the manifest exists
\* and parses (NoCargoToml when it is absent).
C4_BothSkipsNoOp ==
  [][(last'.op = "initialize" /\ last'.skip_create_crate /\ last'.skip_get_input) =>
       /\ manifest' = manifest /\ dayDirs' = dayDirs /\ dayFiles' = dayFiles
       /\ cache' = cache
       /\ last'.retrievals = 0 /\ last'.fetched = <<>>
       /\ (last'.result = Ok <=> (manifest.exists /\ manifest.parses))
       /\ (~manifest.exists => last'.result = "NoCargoToml")]_vars

\* C4 witness: a call with both flags set succeeded on a manifest that parses
\* although its workspace is no table
C4_Witness ==
  /\ last.op = "initialize" /\ last.skip_create_crate /\ last.skip_get_input
  /\ last.result = Ok /\ manifest.workspace = "other"

\* the steps initialize is to run under the given flags, in order
StepsOf(skip_create_crate, skip_get_input) ==
  <<"resolve">>
  \o (IF skip_create_crate THEN <<>>
      ELSE <<"create_dir", "register", "templates", "render">>)
  \o (IF skip_get_input THEN <<>> ELSE <<"fetch">>)

\* C8: initialize runs resolve, create directory, register, populate templates,
\* render, fetch in this order and stops at the first failure; the input is fetched
\* at most once and only when every earlier step succeeded; what the completed
\* steps did stays in place and the steps not reached did nothing.
C8_StepOrder ==
  [][last'.op = "initialize" =>
       LET log == last'.log
           name == DayNN(last'.day)
           want == StepsOf(last'.skip_create_crate, last'.skip_get_input)
           failed == last'.result # Ok
       IN /\ log # <<>> /\ IsPrefix(log, want)
          /\ (log # want => failed)
          /\ Len(last'.fetched) <= 1
          /\ (last'.fetched # <<>> <=> log[Len(log)] = "fetch")
          /\ (last'.fetched # <<>> => (log = want /\ last'.fetched[1] = <<last'.year, last'.day>>))
          /\ ("create_dir" \notin Range(log) => dayDirs' = dayDirs)
          /\ ("register" \notin Range(log) => manifest' = manifest)
          /\ ("templates" \notin Range(log) => cache' = cache /\ last'.retrievals = 0)
          /\ ("render" \notin Range(log) => dayFiles' = dayFiles)
          /\ ("register" \in Range(log) => name \in dayDirs')
          /\ ("templates" \in Range(log) =>
                manifest' = Doc("table", "array", Append(MembersOf(manifest), Str(name))))
          /\ (failed /\ log[Len(log)] = "templates" =>
                Cardinality({t \in Templates : ~CacheHas(cache, t) /\ CacheHas(cache', t)})
                  >= last'.retrievals - 1)
          /\ ("render" \in Range(log) => \A t \in Templates : CacheHas(cache', t))
          /\ (~failed /\ ~last'.skip_create_crate =>
                \A t \in Templates : FileExists(dayFiles', name, t))]_vars

\* C8 witness: a call that failed while populating the template store, after it
\* had created the directory, registered the day and stored one template
C8_Witness ==
  /\ last.op = "initialize" /\ last.result = "ResponseStatus"
  /\ last.log = <<"resolve", "create_dir", "register", "templates">>
  /\ last.retrievals = 2 /\ last.fetched = <<>>
  /\ DayNN(last.day) \in dayDirs /\ HasStringMember(manifest, DayNN(last.day))
  /\ CacheHas(cache, 1) /\ ~CacheHas(cache, 2)

\* C9 as claimed: from a template cache that is missing or empty, when no retrieval
\* fails, ensure_template_dir leaves all three template files in the cache.
C9_Original ==
  [][(/\ last'.op = "initialize" /\ "templates" \in Range(last'.log)
      /\ CacheEmpty(cache) /\ last'.fault = NoFault)
       => \A t \in Templates : CacheHas(cache', t)]_vars

\* C10 as claimed: a file is in the template cache under a template name only if
\* its content was retrieved completely.
C10_Original == \A t \in Templates : CacheHas(cache, t) => cache.files[t] = "complete"

\* a is a strict sub-directory of b
StrictSub(a, b) == Len(a) > Len(b) /\ SubSeq(a, 1, Len(b)) = b

\* C5 as claimed: when the implementation root does not exist at the time of the
\* call, a successful initialize_year has invoked cargo new for it and the root
\* holds a bootstrapped project.
C5_Original ==
  (lastYear.op = "initialize_year" /\ lastYear.result = Ok /\ lastYear.fault = NoFault
     /\ lastYear.impl_missing)
    => /\ lastYear.bootstrapped
       /\ \E pr \in projects : pr.path = implementation(paths[lastYear.year])

\* C6 as claimed: initialize_year appends a line to the ignore file only when the
\* input-storage path is a strict sub-directory of the implementation root.
C6_Original ==
  (lastYear.op = "initialize_year" /\ lastYear.appended # <<>>)
    => StrictSub(input_files(paths[lastYear.year]), implementation(paths[lastYear.year]))

\* the canonical form of each path a caller may supply
CanonicalOf(p) ==
  CASE p = <<"w", "w">> -> <<"w", "w">>
    [] p = <<"w", "..", "w">> -> <<"w">>
    [] p = <<"w", "..", "x">> -> <<"x">>
    [] p = <<"..">> -> <<>>
    [] p = <<"x", "y">> -> <<"x", "y">>

\* the ensure_path calls that come before the one of a role, and its own
EnsuredBefore(role) ==
  CASE role = "input_files" -> {"ensure_input"}
    [] role = "implementation" -> {"ensure_input", "ensure_implementation"}
    [] role = "day_template" ->
         {"ensure_input", "ensure_implementation", "ensure_day_template"}

SuppliedFor(call, role) ==
  CASE role = "input_files" -> call.input_files
    [] role = "implementation" -> call.implementation
    [] role = "day_template" -> call.day_templates

\* C7: over initialize_year calls each configured path is write-once; an unset path
\* stays unset when none is supplied and becomes the canonical form of the supplied
\* path, its directory existing, when one is supplied and the call gets that far.
C7_PathsWriteOnce ==
  [][lastYear'.op = "initialize_year" /\ calls' # calls =>
       \A y \in ConfigYears, role \in {"input_files", "implementation", "day_template"} :
         LET before == paths[y][role]
             after == paths'[y][role]
             supplied == SuppliedFor(lastYear', role)
         IN /\ (before # None => after = before)
            /\ (y # lastYear'.year => after = before)
            /\ (y = lastYear'.year /\ before = None /\ supplied = None => after = None)
            /\ (y = lastYear'.year /\ before = None /\ supplied # None
                  /\ lastYear'.fault.kind \notin EnsuredBefore(role)
                  => /\ after = Some(CanonicalOf(Unwrap(supplied)))
                     /\ CanonicalOf(Unwrap(supplied)) \in dirs')]_vars

\* C7 witness: a call set one path from a supplied one that is not in canonical
\* form and left a configured one alone although another path was supplied for it
C7_Witness ==
  /\ lastYear.op = "initialize_year" /\ lastYear.result = Ok /\ lastYear.refused
  /\ lastYear.input_files = Some(<<"w", "..", "w">>)
  /\ paths[lastYear.year].input_files = Some(<<"w">>)

====
